---- MODULE Spec2Model ----
(***************************************************************************)
(* The similarity engine of nfl_player_similarity                           *)
(* (src/src/models/similarity_v2.py) and the POST /find endpoint that      *)
(* calls it (src/src/api/routers/similarity.py), over a small database.    *)
(*                                                                         *)
(* Numbers.  Scores are exact rationals <<numerator, denominator>> with a  *)
(* positive denominator, in lowest terms.  The modelled databases vary one *)
(* stat column, fantasy_points_ppr; the other nine STAT_COLUMNS hold the   *)
(* same value in every row, so _normalize_stats gives them the scaled      *)
(* value 0.0 (line 211) and they add nothing to a distance.  A scaled      *)
(* value and a euclidean_score are carried in units of weight/std of that  *)
(* one column: the factor is positive and common to every row of one call, *)
(* so comparisons, zero tests and the min-max normalisation are exact.     *)
(*                                                                         *)
(* Missing values.  NULL is SQL NULL in a table, NaN the missing value of a *)
(* float64 column of a frame, None Python's None (the value of every cell  *)
(* of a frame column that is NULL in every row, which pandas reads as an   *)
(* object column).  The modelled databases always hold a non-null age, a   *)
(* non-null season_number and a non-null fantasy_points_ppr somewhere, so  *)
(* these three columns of the statistics frame are float64.                *)
(***************************************************************************)
EXTENDS Integers, Sequences, FiniteSets

\* sentinels, below every number a table holds
NULL == -1003
NaN == -1001
None == -1002

\* pd.isna
IsNa(x) == x = NaN \/ x = None

(***************************************************************************)
(* Bounds of the model.                                                    *)
(***************************************************************************)
\* players in the database are 1..NumPlayers; NumPlayers + 1 is an id with no row
NumPlayers == 3
\* the calendar years of the seasons table are 1..MaxYear
MaxYear == 5

Ids == 1..(NumPlayers + 1)
Positions == {"QB", "RB"}
Modes == {"age", "season_number"}

(***************************************************************************)
(* Exact rational arithmetic.                                              *)
(***************************************************************************)
Abs(x) == IF x < 0 THEN -x ELSE x

RECURSIVE Gcd(_, _)
Gcd(a, b) == IF b = 0 THEN a ELSE Gcd(b, a % b)

Rat(n, d) ==
    LET g == Gcd(Abs(n), Abs(d))
        s == IF d < 0 THEN -1 ELSE 1
    IN  <<s * (n \div g), s * (d \div g)>>

RInt(n) == <<n, 1>>
Lcm(a, b) == (a \div Gcd(a, b)) * b

\* a missing rational (NaN in a score column): arithmetic with NaN gives NaN,
\* a comparison with NaN is false
RNaN == <<0, 0>>

RAdd(a, b) ==
    IF a = RNaN \/ b = RNaN THEN RNaN
    ELSE LET l == Lcm(a[2], b[2])
         IN  Rat(a[1] * (l \div a[2]) + b[1] * (l \div b[2]), l)
RNeg(a) == <<-a[1], a[2]>>
RSub(a, b) == RAdd(a, RNeg(b))
RMul(a, b) ==
    IF a = RNaN \/ b = RNaN THEN RNaN
    ELSE LET g1 == Gcd(Abs(a[1]), b[2])
             g2 == Gcd(Abs(b[1]), a[2])
         IN  Rat((a[1] \div g1) * (b[1] \div g2), (a[2] \div g2) * (b[2] \div g1))
RDiv(a, b) ==
    IF a = RNaN \/ b = RNaN \/ b[1] = 0 THEN RNaN
    ELSE RMul(a, IF b[1] < 0 THEN <<-b[2], -b[1]>> ELSE <<b[2], b[1]>>)
RAbs(a) == <<Abs(a[1]), a[2]>>
RLt(a, b) ==
    /\ a # RNaN /\ b # RNaN
    /\ LET l == Lcm(a[2], b[2])
       IN  a[1] * (l \div a[2]) < b[1] * (l \div b[2])
RLe(a, b) == a # RNaN /\ b # RNaN /\ ~RLt(b, a)
RMax(a, b) == IF RLt(a, b) THEN b ELSE a
RMin(a, b) == IF RLt(b, a) THEN b ELSE a

RECURSIVE RSum(_)
RSum(s) == IF s = <<>> THEN RInt(0) ELSE RAdd(s[1], RSum(Tail(s)))
\* np.mean of a non-empty list
RMean(s) == RDiv(RSum(s), RInt(Len(s)))

RECURSIVE RMaxOf(_)
RMaxOf(s) == IF Len(s) = 1 THEN s[1] ELSE RMax(s[1], RMaxOf(Tail(s)))
RECURSIVE RMinOf(_)
RMinOf(s) == IF Len(s) = 1 THEN s[1] ELSE RMin(s[1], RMinOf(Tail(s)))

SetMax(S) == CHOOSE x \in S : \A y \in S : y <= x
SetMin(S) == CHOOSE x \in S : \A y \in S : x <= y

\* the elements of a finite set of integers, ascending
RECURSIVE SortedSeq(_)
SortedSeq(S) ==
    IF S = {} THEN <<>> ELSE <<SetMin(S)>> \o SortedSeq(S \ {SetMin(S)})

\* the members of S as a sequence ordered by the injective integer key k,
\* a function on S
SeqBy(S, k) ==
    LET keys == SortedSeq({k[x] : x \in S})
    IN  [i \in 1..Len(keys) |-> CHOOSE x \in S : k[x] = keys[i]]

Range(s) == {s[i] : i \in 1..Len(s)}
\* the sequence of the values of the function f at the elements of s
MapSeq(s, f) == [i \in 1..Len(s) |-> f[s[i]]]

(***************************************************************************)
(* The database and the model's caches.                                    *)
(*   players : rows [gsis_id, position, first_season, birth_year]          *)
(*   seasons : rows [gsis_id, season, season_number, fantasy_points_ppr]   *)
(*   draft   : rows [gsis_id, draft_year, round, pick, position_pick],     *)
(*             at most one per player                                      *)
(* name, last_season, headshot_url and team are carried through by the     *)
(* code without being read by any decision and are left out.               *)
(*   previous : what the model returned to the preceding call, when that   *)
(*              call had the arguments of the request in progress          *)
(*   selection : the season dataset of the Streamlit app and the player     *)
(*              selection list made from it                                *)
(*   connection : the connection of a Database.get_connection block that   *)
(*              writes, and what the block has done                        *)
(***************************************************************************)
VARIABLES players, seasons, draft,
          stats_cache, players_cache,
          request, result, http_status, previous,
          selection, connection

vars == <<players, seasons, draft, stats_cache, players_cache,
          request, result, http_status, previous, selection, connection>>

\* a NULL cell of a float64 column reads as NaN
Float(v) == IF v = NULL THEN NaN ELSE v

\* a cell of a column that read_sql infers: an all-NULL column is an object
\* column of None, any other column holds NaN for NULL
Cell(v, allNull) == IF v = NULL THEN (IF allNull THEN None ELSE NaN) ELSE v

\* _load_data, first query: seasons JOIN players, age derived from birth_date
StatsFrame(ps, ss) ==
    LET rows == { [gsis_id |-> s.gsis_id,
                   season |-> s.season,
                   season_number |-> Float(s.season_number),
                   age |-> IF p.birth_year # NULL
                           THEN s.season - p.birth_year ELSE NaN,
                   fantasy_points_ppr |-> Float(s.fantasy_points_ppr),
                   position |-> p.position] :
                  <<s, p>> \in {j \in ss \X ps : j[1].gsis_id = j[2].gsis_id} }
    IN  SeqBy(rows, [r \in rows |-> r.gsis_id * (MaxYear + 1) + r.season])

\* _load_data, second query: players LEFT JOIN draft
PlayersFrame(ps, ds) ==
    LET d(p) == IF \E x \in ds : x.gsis_id = p.gsis_id
                THEN CHOOSE x \in ds : x.gsis_id = p.gsis_id
                ELSE [gsis_id |-> p.gsis_id, draft_year |-> NULL, round |-> NULL,
                      pick |-> NULL, position_pick |-> NULL]
        noYear == \A p \in ps : d(p).draft_year = NULL
        noRound == \A p \in ps : d(p).round = NULL
        noPick == \A p \in ps : d(p).pick = NULL
        noPos == \A p \in ps : d(p).position_pick = NULL
        rows == { [gsis_id |-> p.gsis_id,
                   position |-> p.position,
                   first_season |-> p.first_season,
                   draft_year |-> Cell(d(p).draft_year, noYear),
                   draft_round |-> Cell(d(p).round, noRound),
                   draft_pick |-> Cell(d(p).pick, noPick),
                   draft_position_pick |-> Cell(d(p).position_pick, noPos)] :
                  p \in ps }
    IN  SeqBy(rows, [r \in rows |-> r.gsis_id])

\* the None that get_player_info returns for an id with no profile row
NoPlayer == [gsis_id |-> None]

\* get_player_info: the first profile row of the id, or None
get_player_info(players_df, gsis_id) ==
    LET hits == SelectSeq(players_df, LAMBDA r : r.gsis_id = gsis_id)
    IN  IF hits = <<>> THEN NoPlayer ELSE hits[1]

(***************************************************************************)
(* find_similar_players: comparison window and peer cohort.                *)
(***************************************************************************)
\* the comparison column of a statistics row
Col(r, mode) == IF mode = "age" THEN r.age ELSE r.season_number

\* Series.min() / Series.max(): NaN is skipped, an all-NaN column gives NaN
ColMax(rows, mode) ==
    LET vals == {Col(r, mode) : r \in rows} \ {NaN}
    IN  IF vals = {} THEN NaN ELSE SetMax(vals)
ColMin(rows, mode) ==
    LET vals == {Col(r, mode) : r \in rows} \ {NaN}
    IN  IF vals = {} THEN NaN ELSE SetMin(vals)

\* Python's min(a, b): b only when b < a, and no comparison with NaN is true
PyMin(a, b) == IF b # NaN /\ b < a THEN b ELSE a

\* faulty variant: through_season is ignored, the window is the whole career
ComparisonRange_WholeCareer(target_rows, mode, through_season) ==
    IF mode = "season_number"
    THEN <<1, ColMax(target_rows, mode)>>
    ELSE <<ColMin(target_rows, mode), ColMax(target_rows, mode)>>

\* lines 422-438: <<comparison_min, comparison_max>> before the NaN test
ComparisonRange(target_rows, mode, through_season) ==
    IF mode = "season_number"
    THEN <<1, IF through_season # None
              THEN PyMin(through_season, ColMax(target_rows, mode))
              ELSE ColMax(target_rows, mode)>>
    ELSE <<ColMin(target_rows, mode), ColMax(target_rows, mode)>>

\* a comparison of a cell with a bound: false for NaN
InRange(v, lo, hi) == v # NaN /\ lo # NaN /\ hi # NaN /\ v >= lo /\ v <= hi

\* lines 431-434: in season_number mode the target's rows are cut to the window
TargetWindowRows(target_rows, mode, range) ==
    IF mode = "season_number"
    THEN {r \in target_rows : InRange(Col(r, mode), range[1], range[2])}
    ELSE target_rows

\* faulty variant: players who started in the target's first season count as earlier
EarlierCareerPlayers_NotStrict(players_df, target_first_season) ==
    {players_df[i].gsis_id : i \in {j \in 1..Len(players_df) :
        players_df[j].first_season <= target_first_season}}

\* lines 461-464
EarlierCareerPlayers(players_df, target_first_season) ==
    {players_df[i].gsis_id : i \in {j \in 1..Len(players_df) :
        players_df[j].first_season < target_first_season}}

\* lines 475-481 and 489-495: the same filter in both modes
PeerCandidateRows(stats_df, gsis_id, earlier, position, mode, range) ==
    {r \in Range(stats_df) :
        /\ r.gsis_id # gsis_id
        /\ r.gsis_id \in earlier
        /\ r.position = position
        /\ InRange(Col(r, mode), range[1], range[2])}

\* groupby('gsis_id')[comparison_col].nunique()
NUnique(rows, id, mode) == Cardinality({Col(r, mode) : r \in {x \in rows : x.gsis_id = id}})

\* faulty variant: the age rule, half the window, in both modes
RequiredCoverage_HalfBoth(mode, num_comparison_units) ==
    IF num_comparison_units \div 2 > 1 THEN num_comparison_units \div 2 ELSE 1

\* faulty variant: age mode asks for more than half of the window
RequiredCoverage_MoreThanHalf(mode, num_comparison_units) ==
    IF mode = "season_number"
    THEN num_comparison_units
    ELSE num_comparison_units \div 2 + 1

\* lines 485 and 498-500: the coverage a peer needs
RequiredCoverage(mode, num_comparison_units) ==
    IF mode = "season_number"
    THEN num_comparison_units
    ELSE IF num_comparison_units \div 2 > 1 THEN num_comparison_units \div 2 ELSE 1

\* faulty variant: the coverage filter is skipped, every candidate is a valid peer
ValidPeers_Unfiltered(rows, mode, num_comparison_units) ==
    {r.gsis_id : r \in rows}

\* lines 484-486 and 499-501
ValidPeers(rows, mode, num_comparison_units) ==
    {id \in {r.gsis_id : r \in rows} :
        NUnique(rows, id, mode) >= RequiredCoverage(mode, num_comparison_units)}

(***************************************************************************)
(* Stat normaliser and the three distance calculators.                     *)
(***************************************************************************)
RECURSIVE SumFp(_)
SumFp(rows) ==
    IF rows = {} THEN 0
    ELSE LET r == CHOOSE x \in rows : TRUE
         IN  r.fantasy_points_ppr + SumFp(rows \ {r})

\* faulty variant: the division is not guarded by std > 0
_normalize_stats_Unguarded(rows) ==
    LET known == {r \in rows : r.fantasy_points_ppr # NaN}
        n == Cardinality(known)
        stdPositive == n >= 2 /\ \E a, b \in known :
                           a.fantasy_points_ppr # b.fantasy_points_ppr
        mean == Rat(SumFp(known), n)
    IN  [r \in rows |->
            IF ~stdPositive THEN RNaN
            ELSE IF r.fantasy_points_ppr = NaN THEN RNaN
            ELSE RSub(RInt(r.fantasy_points_ppr), mean)]

\* _normalize_stats on the one varying column: the scaled value of each row
\* of the pool, in units of weight/std; 0 for every row when std > 0 is false
\* (fewer than two non-null values, or all equal), NaN for a null cell
_normalize_stats(rows) ==
    LET known == {r \in rows : r.fantasy_points_ppr # NaN}
        n == Cardinality(known)
        stdPositive == n >= 2 /\ \E a, b \in known :
                           a.fantasy_points_ppr # b.fantasy_points_ppr
        mean == Rat(SumFp(known), n)
    IN  [r \in rows |->
            IF ~stdPositive THEN RInt(0)
            ELSE IF r.fantasy_points_ppr = NaN THEN RNaN
            ELSE RSub(RInt(r.fantasy_points_ppr), mean)]

\* .fillna(0) on the scaled columns
FillZero(x) == IF x = RNaN THEN RInt(0) ELSE x

\* sorted(target_stats[comparison_col].unique()); a NaN value matches no row
ComparisonValues(target_rows, mode) ==
    SortedSeq({Col(r, mode) : r \in target_rows} \ {NaN})

RowAt(rows, id, mode, val) ==
    CHOOSE r \in rows : r.gsis_id = id /\ Col(r, mode) = val
HasRowAt(rows, id, mode, val) ==
    \E r \in rows : r.gsis_id = id /\ Col(r, mode) = val

\* the order in which peers enter the all_distances / all_diffs dict: by the
\* first comparison value at which they are appended, then by frame order
DictOrder(ids, firstVal) ==
    SeqBy(ids, [id \in ids |-> firstVal[id] * (NumPlayers + 2) + id])

\* faulty variant: a peer is scored only when it has a row at every
\* comparison value of the target
_calculate_euclidean_similarity_FullCoverage(target_rows, peer_rows, scaled, gsis_id, mode) ==
    LET vals == ComparisonValues(target_rows, mode)
        peers == {r.gsis_id : r \in peer_rows}
        shared == [id \in peers |->
                      IF \A v \in Range(vals) : HasRowAt(peer_rows, id, mode, v)
                      THEN vals ELSE <<>>]
        dist(id, v) == RAbs(RSub(FillZero(scaled[RowAt(peer_rows, id, mode, v)]),
                                 FillZero(scaled[RowAt(target_rows, gsis_id, mode, v)])))
        ids == {id \in peers : shared[id] # <<>>}
        first == [id \in ids |-> shared[id][1]]
        score == [id \in ids |->
                     [gsis_id |-> id,
                      euclidean_score |->
                          RMean([i \in 1..Len(shared[id]) |-> dist(id, shared[id][i])])]]
    IN  MapSeq(DictOrder(ids, first), score)

\* faulty variant: the distances of a peer are summed, not averaged
_calculate_euclidean_similarity_Summed(target_rows, peer_rows, scaled, gsis_id, mode) ==
    LET vals == ComparisonValues(target_rows, mode)
        peers == {r.gsis_id : r \in peer_rows}
        shared == [id \in peers |->
                      SelectSeq(vals, LAMBDA v : HasRowAt(peer_rows, id, mode, v))]
        dist(id, v) == RAbs(RSub(FillZero(scaled[RowAt(peer_rows, id, mode, v)]),
                                 FillZero(scaled[RowAt(target_rows, gsis_id, mode, v)])))
        ids == {id \in peers : shared[id] # <<>>}
        first == [id \in ids |-> shared[id][1]]
        score == [id \in ids |->
                     [gsis_id |-> id,
                      euclidean_score |->
                          RSum([i \in 1..Len(shared[id]) |-> dist(id, shared[id][i])])]]
    IN  MapSeq(DictOrder(ids, first), score)

\* _calculate_euclidean_similarity: rows [gsis_id, euclidean_score]
_calculate_euclidean_similarity(target_rows, peer_rows, scaled, gsis_id, mode) ==
    LET vals == ComparisonValues(target_rows, mode)
        peers == {r.gsis_id : r \in peer_rows}
        \* the comparison values at which the peer's distance is appended
        shared == [id \in peers |->
                      SelectSeq(vals, LAMBDA v : HasRowAt(peer_rows, id, mode, v))]
        dist(id, v) == RAbs(RSub(FillZero(scaled[RowAt(peer_rows, id, mode, v)]),
                                 FillZero(scaled[RowAt(target_rows, gsis_id, mode, v)])))
        ids == {id \in peers : shared[id] # <<>>}
        first == [id \in ids |-> shared[id][1]]
        score == [id \in ids |->
                     [gsis_id |-> id,
                      euclidean_score |->
                          RMean([i \in 1..Len(shared[id]) |-> dist(id, shared[id][i])])]]
    IN  MapSeq(DictOrder(ids, first), score)

\* faulty variant: the divisor has no floor
MaxWithOne_NoFloor(x) == x

\* max(target_fp, 1)
MaxWithOne(x) == IF 1 > x THEN 1 ELSE x

\* _calculate_fantasy_similarity: rows [gsis_id, fantasy_score]
_calculate_fantasy_similarity(target_rows, peer_rows, gsis_id, mode) ==
    LET vals == ComparisonValues(target_rows, mode)
        peers == {r.gsis_id : r \in peer_rows}
        tfp == [v \in Range(vals) |->
                   RowAt(target_rows, gsis_id, mode, v).fantasy_points_ppr]
        pfp(id, v) == RowAt(peer_rows, id, mode, v).fantasy_points_ppr
        \* the comparison values at which the peer's difference is appended
        usable == [id \in peers |->
                      SelectSeq(vals, LAMBDA v :
                          /\ HasRowAt(peer_rows, id, mode, v)
                          /\ tfp[v] # NaN /\ tfp[v] # 0
                          /\ pfp(id, v) # NaN)]
        diff(id, v) == Rat(Abs(pfp(id, v) - tfp[v]), MaxWithOne(tfp[v]))
        ids == {id \in peers : usable[id] # <<>>}
        first == [id \in ids |-> usable[id][1]]
        score == [id \in ids |->
                     [gsis_id |-> id,
                      fantasy_score |->
                          RMean([i \in 1..Len(usable[id]) |-> diff(id, usable[id][i])])]]
    IN  MapSeq(DictOrder(ids, first), score)

\* the pick ceiling 32 * 7 and the position-pick spread
PickSpan == 224
PositionPickSpan == 15

\* Python truthiness of a draft cell: None and 0 are false, NaN is true
Truthy(x) == x # None /\ x # 0

\* faulty variant: the score of a gap is not cut off at 0
GapScore_Unclamped(a, b, span) ==
    IF a = NaN \/ b = NaN THEN RInt(0)
    ELSE RSub(RInt(1), Rat(Abs(a - b), span))

\* max(0, 1 - abs(a - b) / span): abs and the division give NaN when a or b is
\* NaN, and max(0, NaN) is 0 because no comparison with NaN is true
GapScore(a, b, span) ==
    IF a = NaN \/ b = NaN THEN RInt(0)
    ELSE RMax(RInt(0), RSub(RInt(1), Rat(Abs(a - b), span)))

\* faulty variant: a peer without a pick gets the neutral 0.5
PeerDraftScore_UndraftedNeutral(target_info, peer) ==
    IF IsNa(peer.draft_pick) THEN Rat(1, 2)
    ELSE LET pick_score == GapScore(peer.draft_pick, target_info.draft_pick, PickSpan)
             pos_score == GapScore(peer.draft_position_pick,
                                   target_info.draft_position_pick, PositionPickSpan)
         IN  RDiv(RAdd(pick_score, pos_score), RInt(2))

\* lines 352-369: the draft_score of one peer row against a target whose
\* draft_pick is not None
PeerDraftScore(target_info, peer) ==
    IF IsNa(peer.draft_pick) THEN Rat(3, 10)
    ELSE LET pick_score == GapScore(peer.draft_pick, target_info.draft_pick, PickSpan)
             pos_score ==
                 IF Truthy(target_info.draft_position_pick) /\
                    Truthy(peer.draft_position_pick)
                 THEN GapScore(peer.draft_position_pick,
                               target_info.draft_position_pick, PositionPickSpan)
                 ELSE pick_score
         IN  RDiv(RAdd(pick_score, pos_score), RInt(2))

\* line 343: the target has no draft pick
TargetUndrafted(target_info) == target_info.draft_pick = None

\* _calculate_draft_similarity: rows [gsis_id, draft_score]
_calculate_draft_similarity(target_info, peer_ids, players_df) ==
    IF TargetUndrafted(target_info)
    THEN [i \in 1..Len(peer_ids) |-> [gsis_id |-> peer_ids[i], draft_score |-> Rat(1, 2)]]
    ELSE LET peers == SelectSeq(players_df, LAMBDA r : r.gsis_id \in Range(peer_ids))
         IN  [i \in 1..Len(peers) |->
                 [gsis_id |-> peers[i].gsis_id,
                  draft_score |-> PeerDraftScore(target_info, peers[i])]]

(***************************************************************************)
(* Score blender and ranker.                                               *)
(***************************************************************************)
IdsOf(rows) == {rows[i].gsis_id : i \in 1..Len(rows)}
RowOf(rows, id) == rows[CHOOSE i \in 1..Len(rows) : rows[i].gsis_id = id]

\* lines 536-544: euclidean rows, outer-merged with the fantasy rows (an outer
\* merge sorts by key), then left-merged with the draft rows
MergeScores(euclid, fantasy, target_info, players_df) ==
    LET order == IF fantasy = <<>>
                 THEN [i \in 1..Len(euclid) |-> euclid[i].gsis_id]
                 ELSE SortedSeq(IdsOf(euclid) \cup IdsOf(fantasy))
        drafts == _calculate_draft_similarity(target_info, order, players_df)
    IN  [i \in 1..Len(order) |->
            [gsis_id |-> order[i],
             euclidean_score |-> IF order[i] \in IdsOf(euclid)
                                 THEN RowOf(euclid, order[i]).euclidean_score ELSE RNaN,
             fantasy_score |-> IF order[i] \in IdsOf(fantasy)
                               THEN RowOf(fantasy, order[i]).fantasy_score ELSE RNaN,
             draft_score |-> IF order[i] \in IdsOf(drafts)
                             THEN RowOf(drafts, order[i]).draft_score ELSE RNaN]]

\* faulty variant: missing cells stay missing
FillMean_Skipped(col) == col

\* faulty variant: missing cells are filled with 0
FillMean_Zero(col) ==
    [i \in 1..Len(col) |-> IF col[i] = RNaN THEN RInt(0) ELSE col[i]]

\* line 548 on one column: NaN cells take the mean of the cells that are not NaN
FillMean(col) ==
    LET have == SelectSeq(col, LAMBDA x : x # RNaN)
    IN  IF have = <<>> THEN col
        ELSE [i \in 1..Len(col) |-> IF col[i] = RNaN THEN RMean(have) ELSE col[i]]

\* faulty variant: the column is measured from its maximum
MinMaxNorm_FromMax(col) ==
    LET have == SelectSeq(col, LAMBDA x : x # RNaN)
        min_val == IF have = <<>> THEN RNaN ELSE RMinOf(have)
        max_val == IF have = <<>> THEN RNaN ELSE RMaxOf(have)
    IN  IF RLt(min_val, max_val)
        THEN [i \in 1..Len(col) |->
                 RDiv(RSub(col[i], max_val), RSub(max_val, min_val))]
        ELSE [i \in 1..Len(col) |-> Rat(1, 2)]

\* faulty variant: a column whose values tie is normalised to 0
MinMaxNorm_TieZero(col) ==
    LET have == SelectSeq(col, LAMBDA x : x # RNaN)
        min_val == IF have = <<>> THEN RNaN ELSE RMinOf(have)
        max_val == IF have = <<>> THEN RNaN ELSE RMaxOf(have)
    IN  IF RLt(min_val, max_val)
        THEN [i \in 1..Len(col) |->
                 RDiv(RSub(col[i], min_val), RSub(max_val, min_val))]
        ELSE [i \in 1..Len(col) |-> RInt(0)]

\* lines 554-559 on one column; Series.min() and Series.max() skip NaN
MinMaxNorm(col) ==
    LET have == SelectSeq(col, LAMBDA x : x # RNaN)
        min_val == IF have = <<>> THEN RNaN ELSE RMinOf(have)
        max_val == IF have = <<>> THEN RNaN ELSE RMaxOf(have)
    IN  IF RLt(min_val, max_val)
        THEN [i \in 1..Len(col) |->
                 RDiv(RSub(col[i], min_val), RSub(max_val, min_val))]
        ELSE [i \in 1..Len(col) |-> Rat(1, 2)]

\* faulty variant: the two statistical components weigh a half each
StatWeight_Half == Rat(1, 2)

\* faulty variant: the draft weight of the legacy weight_draft_scores after
\* one season played, 1 / (seasons_played + 1)
DraftWeight_OneSeason == Rat(1, 2)

\* the weights of lines 565-569
StatWeight == Rat(2, 5)
DraftWeight == Rat(1, 5)

\* lines 546-570: the score table with similarity_score; hasE / hasF say
\* whether the euclidean_score / fantasy_score column exists
BlendScores(merged, hasE, hasF) ==
    LET e == FillMean([i \in 1..Len(merged) |-> merged[i].euclidean_score])
        f == FillMean([i \in 1..Len(merged) |-> merged[i].fantasy_score])
        d == FillMean([i \in 1..Len(merged) |-> merged[i].draft_score])
        en == IF hasE THEN MinMaxNorm(e) ELSE e
        fn == IF hasF THEN MinMaxNorm(f) ELSE f
        stat(i) == RAdd(IF hasE THEN RMul(StatWeight, en[i]) ELSE RInt(0),
                        IF hasF THEN RMul(StatWeight, fn[i]) ELSE RInt(0))
        dcomp(i) == RMul(DraftWeight,
                         RSub(RInt(1), IF d[i] = RNaN THEN Rat(1, 2) ELSE d[i]))
    IN  [i \in 1..Len(merged) |->
            [gsis_id |-> merged[i].gsis_id,
             similarity_score |-> RAdd(stat(i), dcomp(i)),
             euclidean_score |-> e[i],
             fantasy_score |-> f[i],
             draft_score |-> d[i],
             euclidean_score_norm |-> IF hasE THEN en[i] ELSE RNaN,
             fantasy_score_norm |-> IF hasF THEN fn[i] ELSE RNaN]]

\* faulty variant: the sort is descending
RECURSIVE InsertSorted_Descending(_, _)
InsertSorted_Descending(sorted, r) ==
    IF sorted = <<>> THEN <<r>>
    ELSE IF RLt(sorted[1].similarity_score, r.similarity_score)
         THEN <<r>> \o sorted
         ELSE <<sorted[1]>> \o InsertSorted_Descending(Tail(sorted), r)

\* sort_values('similarity_score'): ascending, rows of equal score keep their
\* order (the insertion sort numpy uses on the short arrays modelled here)
RECURSIVE InsertSorted(_, _)
InsertSorted(sorted, r) ==
    IF sorted = <<>> THEN <<r>>
    ELSE IF RLt(r.similarity_score, sorted[1].similarity_score)
         THEN <<r>> \o sorted
         ELSE <<sorted[1]>> \o InsertSorted(Tail(sorted), r)

RECURSIVE SortByScore(_)
SortByScore(rows) ==
    IF rows = <<>> THEN <<>>
    ELSE InsertSorted(SortByScore(SubSeq(rows, 1, Len(rows) - 1)), rows[Len(rows)])

\* .head(max_results)
HeadRows(rows, n) == SubSeq(rows, 1, IF n < Len(rows) THEN n ELSE Len(rows))

\* faulty variant: the table is cut before it is sorted
RankScores_HeadFirst(scores, max_results) == SortByScore(HeadRows(scores, max_results))

\* line 580
RankScores(scores, max_results) == HeadRows(SortByScore(scores), max_results)

(***************************************************************************)
(* find_similar_players.  The value is the SimilarityResult, or the raised  *)
(* ValueError, together with the call's locals: valid_peers, the scaled     *)
(* values of all_stats, and scores as merged (before line 548) and as      *)
(* blended.                                                                *)
(***************************************************************************)
NoLocals == [valid_peers |-> {}, scores |-> <<>>, scaled |-> <<>>, merged |-> <<>>]

Raised(e) ==
    [raised |-> e, target_player |-> NoPlayer, similar_players |-> <<>>,
     comparison_mode |-> "", comparison_range |-> <<None, None>>,
     locals |-> NoLocals]

Returned(target_info, similar, mode, range, locals) ==
    [raised |-> "", target_player |-> target_info, similar_players |-> similar,
     comparison_mode |-> mode, comparison_range |-> range, locals |-> locals]

\* faulty variant: the test for an empty statistics frame is missing
TargetMissing_ProfileOnly(target_info, target_rows) ==
    IF target_info = NoPlayer THEN "ValueError: Player not found" ELSE ""

\* lines 410-417: the two not-found tests
TargetMissing(target_info, target_rows) ==
    IF target_info = NoPlayer THEN "ValueError: Player not found"
    ELSE IF target_rows = {} THEN "ValueError: No stats found for player"
    ELSE ""

find_similar_players(stats_df, players_df, gsis_id, mode, max_results, through_season) ==
    LET target_info == get_player_info(players_df, gsis_id)
        all_target_rows == {r \in Range(stats_df) : r.gsis_id = gsis_id}
        missing == TargetMissing(target_info, all_target_rows)
        range == ComparisonRange(all_target_rows, mode, through_season)
        target_rows == TargetWindowRows(all_target_rows, mode, range)
        num_comparison_units == range[2] - range[1] + 1
        earlier == EarlierCareerPlayers(players_df, target_info.first_season)
        candidates == PeerCandidateRows(stats_df, gsis_id, earlier,
                                        target_info.position, mode, range)
        valid_peers == ValidPeers(candidates, mode, num_comparison_units)
        peer_rows == {r \in candidates : r.gsis_id \in valid_peers}
        scaled == _normalize_stats(target_rows \cup peer_rows)
        euclid == _calculate_euclidean_similarity(target_rows, peer_rows, scaled,
                                                  gsis_id, mode)
        fantasy == _calculate_fantasy_similarity(target_rows, peer_rows, gsis_id, mode)
        merged == MergeScores(euclid, fantasy, target_info, players_df)
        scores == BlendScores(merged, euclid # <<>>, fantasy # <<>>)
    IN  IF missing # "" THEN Raised(missing)
        ELSE IF IsNa(range[1]) \/ IsNa(range[2])
        THEN Returned(target_info, <<>>, mode, <<None, None>>, NoLocals)
        ELSE IF peer_rows = {}
        THEN Returned(target_info, <<>>, mode, range, NoLocals)
        ELSE IF euclid = <<>> /\ fantasy = <<>>
        THEN Returned(target_info, <<>>, mode, range,
                      [valid_peers |-> valid_peers, scores |-> <<>>,
                       scaled |-> scaled, merged |-> <<>>])
        ELSE Returned(target_info, RankScores(scores, max_results), mode, range,
                      [valid_peers |-> valid_peers, scores |-> scores,
                       scaled |-> scaled, merged |-> merged])

(***************************************************************************)
(* The databases.  Players 1..NumPlayers - 1 are veterans, player          *)
(* NumPlayers is the newest; every id, and the id NumPlayers + 1 that has  *)
(* no row, can be the target of a request.  A career is                    *)
(*   [position, years, birth_year, fp, sn_null, rows, draft]               *)
(* years the seasons played, fp the fantasy points per year, sn_null       *)
(* whether the season rows hold NULL for season_number, rows whether the   *)
(* season rows exist, draft the draft row <<pick, position_pick>> or <<>>. *)
(* Veterans are drawn in non-decreasing order of career: their ids only    *)
(* order rows that tie.                                                    *)
(***************************************************************************)
Years == 1..MaxYear

\* season_number as _build_seasons_table computes it: cumcount() + 1
SeasonNumber(years, y) == Cardinality({x \in years : x <= y})

SeasonRows(id, c) ==
    IF ~c.rows THEN {}
    ELSE {[gsis_id |-> id, season |-> y,
           season_number |-> IF c.sn_null THEN NULL ELSE SeasonNumber(c.years, y),
           fantasy_points_ppr |-> c.fp[y]] : y \in c.years}

\* _build_players_table: first_season is the first year played
PlayerRow(id, c) ==
    [gsis_id |-> id, position |-> c.position, first_season |-> SetMin(c.years),
     birth_year |-> c.birth_year]

\* _build_draft_table: one row, the round that of the pick at 32 picks a round
DraftRows(id, c) ==
    IF c.draft = <<>> THEN {}
    ELSE {[gsis_id |-> id, draft_year |-> SetMin(c.years),
           round |-> ((c.draft[1] - 1) \div 32) + 1,
           pick |-> c.draft[1], position_pick |-> c.draft[2]]}

Career(position, years, birth_year, fp, drafted) ==
    [position |-> position, years |-> years, birth_year |-> birth_year,
     fp |-> fp, sn_null |-> FALSE, rows |-> TRUE, draft |-> drafted]

\* fantasy points that fall, rise, stay level
FpFalling == [y \in Years |-> IF y % 3 = 1 THEN 5 ELSE IF y % 3 = 2 THEN 2 ELSE 0]
FpRising == [y \in Years |-> IF y % 3 = 1 THEN 0 ELSE IF y % 3 = 2 THEN 2 ELSE 5]
FpLevel == [y \in Years |-> 2]

\* the tables of a choice of careers: careers[i] is the career of player i
TablesOf(careers) ==
    /\ players = {PlayerRow(i, careers[i]) : i \in 1..Len(careers)}
    /\ seasons = UNION {SeasonRows(i, careers[i]) : i \in 1..Len(careers)}
    /\ draft = UNION {DraftRows(i, careers[i]) : i \in 1..Len(careers)}

\* the frames' float64 columns: some row holds a season_number and some an age
FloatColumns ==
    /\ \E s \in seasons : s.season_number # NULL
    /\ \E s \in seasons : s.fantasy_points_ppr # NULL
    /\ \E s \in seasons : \E p \in players :
           p.gsis_id = s.gsis_id /\ p.birth_year # NULL

\* the non-decreasing choices of NumPlayers - 1 veterans among k careers
VeteranChoices(k) ==
    {c \in [1..(NumPlayers - 1) -> 1..k] :
        \A i, j \in 1..(NumPlayers - 1) : i < j => c[i] <= c[j]}

\* a cache attribute: None until _load_data has run, then the frame
NotLoaded == [loaded |-> FALSE, rows |-> <<>>]

\* faulty variant: the cache loses the first row of the frame
Loaded_Truncated(frame) ==
    [loaded |-> TRUE, rows |-> IF frame = <<>> THEN <<>> ELSE Tail(frame)]

Loaded(frame) == [loaded |-> TRUE, rows |-> frame]

NoRequest == [gsis_id |-> None, mode |-> "", max_results |-> None,
              through_season |-> None]
NoResult == Raised("")

\* the Streamlit app has loaded nothing
NoSelection == [stage |-> "none"]

\* no block of Database.get_connection is being run
NoConnection == [state |-> "none"]

\* a fresh model (lines 101-103) and no request in progress
Cold ==
    /\ stats_cache = NotLoaded
    /\ players_cache = NotLoaded
    /\ request = NoRequest
    /\ result = NoResult
    /\ http_status = 0
    /\ previous = NoResult
    /\ selection = NoSelection
    /\ connection = NoConnection

(***************************************************************************)
(* Databases that vary the careers: position, years played, birth year,    *)
(* missing season rows, NULL season numbers.  Nobody has a draft row.      *)
(***************************************************************************)
\* the year of birth of a player who is 21 in year 1
BirthYear == 0 - 20

CohortVeterans ==
    << Career("QB", Years, BirthYear, FpFalling, <<>>),
       Career("QB", {1}, BirthYear - 1, FpRising, <<>>),
       Career("QB", {1, 2}, BirthYear - 2, FpLevel, <<>>),
       Career("RB", Years, BirthYear, FpRising, <<>>),
       Career("QB", 2..MaxYear, BirthYear, FpRising, <<>>),
       [Career("QB", {1, 2}, BirthYear, FpLevel, <<>>) EXCEPT !.rows = FALSE] >>

CohortNewest ==
    << Career("QB", 2..MaxYear, BirthYear, FpFalling, <<>>),
       Career("QB", {2, MaxYear}, BirthYear, FpLevel, <<>>),
       Career("QB", 3..MaxYear, NULL, FpFalling, <<>>),
       [Career("QB", {2, 3}, BirthYear, FpFalling, <<>>) EXCEPT !.sn_null = TRUE],
       Career("RB", {2, 3}, BirthYear - 1, FpLevel, <<>>) >>

InitCohort ==
    /\ \E v \in VeteranChoices(Len(CohortVeterans)) :
       \E n \in 1..Len(CohortNewest) :
           TablesOf([i \in 1..NumPlayers |->
                        IF i < NumPlayers THEN CohortVeterans[v[i]]
                        ELSE CohortNewest[n]])
    /\ FloatColumns = TRUE
    /\ Cold

(***************************************************************************)
(* Databases that vary the fantasy points and the draft rows: everybody is *)
(* a QB, the veterans start in year 1 and the newest player in year 2.     *)
(***************************************************************************)
FpZero == [y \in Years |-> 0]
FpGappy == [y \in Years |-> IF y = 2 THEN NULL ELSE 5]

ScoreVeterans ==
    << Career("QB", 1..(MaxYear - 2), BirthYear, FpFalling, <<>>),
       Career("QB", 1..(MaxYear - 2), BirthYear, FpRising, <<1, 1>>),
       Career("QB", 1..(MaxYear - 2), BirthYear - 1, FpLevel, <<57, 4>>),
       Career("QB", 1..(MaxYear - 2), BirthYear, FpGappy, <<113, 6>>),
       Career("QB", 1..(MaxYear - 2), BirthYear - 1, FpFalling, <<1, 1>>) >>

ScoreNewest ==
    << Career("QB", 2..(MaxYear - 1), BirthYear, FpFalling, <<>>),
       Career("QB", 2..(MaxYear - 1), BirthYear, FpRising, <<57, 4>>),
       Career("QB", 2..(MaxYear - 1), BirthYear, FpZero, <<1, 1>>),
       Career("QB", 2..(MaxYear - 1), BirthYear, FpGappy, <<>>) >>

InitScores ==
    /\ \E v \in VeteranChoices(Len(ScoreVeterans)) :
       \E n \in 1..Len(ScoreNewest) :
           TablesOf([i \in 1..NumPlayers |->
                        IF i < NumPlayers THEN ScoreVeterans[v[i]]
                        ELSE ScoreNewest[n]])
    /\ FloatColumns = TRUE
    /\ Cold

(***************************************************************************)
(* Databases that vary the draft rows: everybody is a QB, the veterans     *)
(* start in year 1 and the newest player in year 2.  A draft row may hold  *)
(* a pick beyond the 224 of seven rounds, and NULL for position_pick.      *)
(***************************************************************************)
DraftVeterans ==
    << Career("QB", 1..(MaxYear - 2), BirthYear, FpFalling, <<>>),
       Career("QB", 1..(MaxYear - 2), BirthYear, FpRising, <<1, 1>>),
       Career("QB", 1..(MaxYear - 2), BirthYear, FpLevel, <<57, 4>>),
       Career("QB", 1..(MaxYear - 2), BirthYear, FpFalling, <<250, 20>>),
       Career("QB", 1..(MaxYear - 2), BirthYear, FpRising, <<30, NULL>>) >>

DraftNewest ==
    << Career("QB", 2..(MaxYear - 1), BirthYear, FpFalling, <<1, 1>>),
       Career("QB", 2..(MaxYear - 1), BirthYear, FpFalling, <<57, 4>>),
       Career("QB", 2..(MaxYear - 1), BirthYear, FpFalling, <<40, NULL>>),
       Career("QB", 2..(MaxYear - 1), BirthYear, FpFalling, <<>>) >>

InitDraft ==
    /\ \E v \in VeteranChoices(Len(DraftVeterans)) :
       \E n \in 1..Len(DraftNewest) :
           TablesOf([i \in 1..NumPlayers |->
                        IF i < NumPlayers THEN DraftVeterans[v[i]]
                        ELSE DraftNewest[n]])
    /\ FloatColumns = TRUE
    /\ Cold

(***************************************************************************)
(* Databases with twins: everybody was drafted first overall; a veteran    *)
(* may have, at every age he shares with the newest player, the newest     *)
(* player's fantasy points.                                                *)
(***************************************************************************)
TwinVeterans ==
    << Career("QB", 1..(MaxYear - 2), BirthYear, FpFalling, <<1, 1>>),
       Career("QB", 1..(MaxYear - 2), BirthYear, FpRising, <<1, 1>>),
       Career("RB", 1..(MaxYear - 2), BirthYear, FpLevel, <<1, 1>>) >>

TwinNewest ==
    << Career("QB", 2..(MaxYear - 1), BirthYear, FpFalling, <<1, 1>>),
       Career("QB", 2..(MaxYear - 1), BirthYear, FpRising, <<1, 1>>) >>

InitTwins ==
    /\ \E v \in VeteranChoices(Len(TwinVeterans)) :
       \E n \in 1..Len(TwinNewest) :
           TablesOf([i \in 1..NumPlayers |->
                        IF i < NumPlayers THEN TwinVeterans[v[i]]
                        ELSE TwinNewest[n]])
    /\ FloatColumns = TRUE
    /\ Cold

(***************************************************************************)
(* Databases that vary the fantasy points only: nobody has a draft row,    *)
(* everybody is a QB.  Fantasy points may be negative, zero or NULL.       *)
(***************************************************************************)
FpLow == [y \in Years |-> IF y % 3 = 2 THEN -1 ELSE IF y % 3 = 0 THEN 0 ELSE 3]
FpEven == [y \in Years |-> IF y % 2 = 0 THEN 300 ELSE 280]
FpOdd == [y \in Years |-> IF y % 2 = 1 THEN 310 ELSE 270]

FantasyVeterans ==
    << Career("QB", 1..(MaxYear - 2), BirthYear, FpOdd, <<>>),
       Career("QB", 1..(MaxYear - 2), BirthYear, FpRising, <<>>),
       Career("QB", 1..(MaxYear - 2), BirthYear, FpGappy, <<>>) >>

FantasyNewest ==
    << Career("QB", 2..(MaxYear - 1), BirthYear, FpEven, <<>>),
       Career("QB", 2..(MaxYear - 1), BirthYear, FpLow, <<>>),
       Career("QB", 2..(MaxYear - 1), BirthYear, FpFalling, <<>>) >>

InitFantasy ==
    /\ \E v \in VeteranChoices(Len(FantasyVeterans)) :
       \E n \in 1..Len(FantasyNewest) :
           TablesOf([i \in 1..NumPlayers |->
                        IF i < NumPlayers THEN FantasyVeterans[v[i]]
                        ELSE FantasyNewest[n]])
    /\ FloatColumns = TRUE
    /\ Cold

(***************************************************************************)
(* Databases of four players, three veterans and the newest player 4, with *)
(* gaps: NULL fantasy points, fantasy points of zero, players without a    *)
(* draft row, a draft row without position_pick.                           *)
(***************************************************************************)
FpLate == [y \in Years |-> IF y = 1 THEN NULL ELSE 5]

GapVeterans ==
    << Career("QB", 1..(MaxYear - 2), BirthYear, FpLate, <<57, NULL>>),
       Career("QB", 1..(MaxYear - 2), BirthYear, FpRising, <<1, 1>>),
       Career("QB", 1..(MaxYear - 2), BirthYear, FpLevel, <<>>),
       Career("RB", 1..(MaxYear - 2), BirthYear, FpLevel, <<>>) >>

GapNewest ==
    << Career("QB", 2..(MaxYear - 1), BirthYear, FpFalling, <<>>),
       Career("QB", 2..(MaxYear - 1), BirthYear, FpZero, <<1, 1>>),
       Career("QB", 2..(MaxYear - 1), BirthYear, FpGappy, <<>>) >>

\* the non-decreasing choices of three veterans among k careers
TrioChoices(k) ==
    {c \in [1..3 -> 1..k] : \A i, j \in 1..3 : i < j => c[i] <= c[j]}

InitGaps ==
    /\ \E v \in TrioChoices(Len(GapVeterans)) :
       \E n \in 1..Len(GapNewest) :
           TablesOf([i \in 1..4 |->
                        IF i < 4 THEN GapVeterans[v[i]] ELSE GapNewest[n]])
    /\ FloatColumns = TRUE
    /\ Cold

Init ==
    InitCohort \/ InitScores \/ InitDraft \/ InitTwins \/ InitFantasy \/ InitGaps

(***************************************************************************)
(* The operations.                                                         *)
(***************************************************************************)
MaxResultsValues == {1, 2, 50}
ThroughSeasons == {None} \cup 1..(MaxYear - 1)

\* _load_data: the cached frames, read from the tables on the first call
_load_data ==
    IF stats_cache.loaded /\ players_cache.loaded
    THEN <<stats_cache.rows, players_cache.rows>>
    ELSE <<StatsFrame(players, seasons), PlayersFrame(players, draft)>>

\* int(x) if x else None, of lines 488-491: int(NaN) raises ValueError
IntOrNoneRaises(x) == Truthy(x) /\ x = NaN

\* POST /find, lines 458-549: the status of the response
ResponseStatus(res) ==
    IF res.raised # "" THEN 404
    ELSE IF \/ IntOrNoneRaises(res.target_player.draft_year)
            \/ IntOrNoneRaises(res.target_player.draft_round)
            \/ IntOrNoneRaises(res.target_player.draft_pick)
            \/ IntOrNoneRaises(res.target_player.draft_position_pick)
         THEN 500
         ELSE 200

\* POST /find: the endpoint validates the request, calls the model and builds
\* the response
Find(gsis_id, mode, max_results, through_season) ==
    /\ request = NoRequest
    /\ LET frames == _load_data
           res == find_similar_players(frames[1], frames[2], gsis_id, mode,
                                       max_results, through_season)
       IN  /\ stats_cache' = Loaded(frames[1])
           /\ players_cache' = Loaded(frames[2])
           /\ request' = [gsis_id |-> gsis_id, mode |-> mode,
                          max_results |-> max_results,
                          through_season |-> through_season]
           /\ result' = res
           /\ http_status' = ResponseStatus(res)
    /\ previous' = NoResult
    /\ UNCHANGED <<players, seasons, draft>>
    /\ UNCHANGED <<selection, connection>>

\* the response is sent: the handler's locals are gone, the model stays warm
Deliver ==
    /\ request # NoRequest
    /\ request' = NoRequest
    /\ result' = NoResult
    /\ http_status' = 0
    /\ previous' = NoResult
    /\ UNCHANGED <<players, seasons, draft, stats_cache, players_cache>>
    /\ UNCHANGED <<selection, connection>>

Next ==
    \/ \E gsis_id \in Ids, mode \in Modes, max_results \in MaxResultsValues,
          through_season \in ThroughSeasons :
           Find(gsis_id, mode, max_results, through_season)
    \/ Deliver

\* the client sends the request again: the handler runs a second time on the
\* same model, which by now holds its frames
Repeat ==
    /\ request # NoRequest
    /\ http_status # 0
    /\ previous = NoResult
    /\ LET frames == _load_data
           res == find_similar_players(frames[1], frames[2], request.gsis_id,
                                       request.mode, request.max_results,
                                       request.through_season)
       IN  /\ stats_cache' = Loaded(frames[1])
           /\ players_cache' = Loaded(frames[2])
           /\ result' = res
           /\ http_status' = ResponseStatus(res)
    /\ previous' = result
    /\ UNCHANGED <<players, seasons, draft, request>>
    /\ UNCHANGED <<selection, connection>>

NextRepeat == Next \/ Repeat

(***************************************************************************)
(* Serving while the database is re-ingested.  run_ingestion(force=True)   *)
(* replaces the database file by an empty schema, fetches, and then        *)
(* commits the rows of the three tables.  A cold _load_data reads its two  *)
(* frames with two SELECT statements outside any transaction, so a commit  *)
(* can fall between them.  One request is in progress at a time; a request *)
(* whose load has begun keeps its connection, so the file is not replaced  *)
(* under it.                                                               *)
(***************************************************************************)
PlayersTable(careers) == {PlayerRow(i, careers[i]) : i \in 1..Len(careers)}
SeasonsTable(careers) == UNION {SeasonRows(i, careers[i]) : i \in 1..Len(careers)}
DraftTable(careers) == UNION {DraftRows(i, careers[i]) : i \in 1..Len(careers)}

\* the databases an ingestion can produce
ServingDatabases ==
    { <<TwinVeterans[1], TwinVeterans[2], TwinNewest[1]>>,
      <<TwinVeterans[2], TwinVeterans[3], TwinNewest[2]>> }

InitServing ==
    /\ \E careers \in ServingDatabases : TablesOf(careers)
    /\ Cold

\* a request is being served and has no response yet
InFlight == request # NoRequest /\ http_status = 0

\* Database.initialize(force=True): the file is removed and the schema
\* created again, with empty tables
Initialize ==
    /\ players # {}
    /\ ~InFlight
    /\ players' = {}
    /\ seasons' = {}
    /\ draft' = {}
    /\ UNCHANGED <<stats_cache, players_cache, request, result, http_status, previous>>
    /\ UNCHANGED <<selection, connection>>

\* ingest_all: the rows of the three tables are inserted and committed
Insert(careers) ==
    /\ players = {} /\ seasons = {} /\ draft = {}
    /\ players' = PlayersTable(careers)
    /\ seasons' = SeasonsTable(careers)
    /\ draft' = DraftTable(careers)
    /\ UNCHANGED <<stats_cache, players_cache, request, result, http_status, previous>>
    /\ UNCHANGED <<selection, connection>>

\* POST /find on a cold model, as far as the first SELECT of _load_data
BeginLoad(gsis_id, mode, max_results, through_season) ==
    /\ request = NoRequest
    /\ ~(stats_cache.loaded /\ players_cache.loaded)
    /\ stats_cache' = Loaded(StatsFrame(players, seasons))
    /\ request' = [gsis_id |-> gsis_id, mode |-> mode,
                   max_results |-> max_results,
                   through_season |-> through_season]
    /\ UNCHANGED <<players, seasons, draft, players_cache, result, http_status,
                   previous>>
    /\ UNCHANGED <<selection, connection>>

\* the second SELECT of _load_data and the rest of the handler
FinishLoad ==
    /\ InFlight
    /\ LET frame == PlayersFrame(players, draft)
           res == find_similar_players(stats_cache.rows, frame, request.gsis_id,
                                       request.mode, request.max_results,
                                       request.through_season)
       IN  /\ players_cache' = Loaded(frame)
           /\ result' = res
           /\ http_status' = ResponseStatus(res)
    /\ UNCHANGED <<players, seasons, draft, stats_cache, request, previous>>
    /\ UNCHANGED <<selection, connection>>

NextServing ==
    \/ \E gsis_id \in Ids, mode \in Modes : Find(gsis_id, mode, 50, None)
    \/ \E gsis_id \in Ids, mode \in Modes : BeginLoad(gsis_id, mode, 50, None)
    \/ FinishLoad
    \/ (~InFlight /\ Deliver)
    \/ Initialize
    \/ \E careers \in ServingDatabases : Insert(careers)

(***************************************************************************)
(* The player selection list of the Streamlit app (src/src/app/main.py,    *)
(* load_data).  DataLoader.load_season_data adds the pfr_id column to the   *)
(* raw season rows; get_player_selection_options makes one display string  *)
(* per player and the mapping from display strings.  A season row is       *)
(* [Player, Pos, Season]; Fantasy_Points is averaged into a column that    *)
(* nothing reads.  The words of the modelled names begin with a capital,   *)
(* so upper() leaves their first letters alone.                            *)
(***************************************************************************)
\* the characters of the modelled strings, in code-point order
Alphabet ==
    " (),-/0123456789ABCDEFGHIJKLMNOPQRSTUVWXYZabcdefghijklmnopqrstuvwxyz"
Ord(c) == CHOOSE i \in 1..Len(Alphabet) : SubSeq(Alphabet, i, i) = c

\* a < b of two Python strings
RECURSIVE StrLess(_, _)
StrLess(a, b) ==
    IF b = "" THEN FALSE
    ELSE IF a = "" THEN TRUE
    ELSE LET x == Ord(SubSeq(a, 1, 1))
             y == Ord(SubSeq(b, 1, 1))
         IN  x < y \/ (x = y /\ StrLess(SubSeq(a, 2, Len(a)),
                                        SubSeq(b, 2, Len(b))))

\* the strings of a finite set, ascending
RECURSIVE SortedStrings(_)
SortedStrings(S) ==
    IF S = {} THEN <<>>
    ELSE LET m == CHOOSE x \in S : \A y \in S : y = x \/ StrLess(x, y)
         IN  <<m>> \o SortedStrings(S \ {m})

\* f"{n}" of a non-negative int
RECURSIVE ToStr(_)
ToStr(n) ==
    IF n < 10 THEN SubSeq("0123456789", n + 1, n + 1)
    ELSE ToStr(n \div 10) \o ToStr(n % 10)

\* the players and the seasons of the modelled season files
PlayerNames == <<"Tom Brady", "Al Ba", "Bo Ax">>
SeasonYears == {2020, 2021}
PosOf(player, season) ==
    CASE player = "Tom Brady" -> "QB"
      [] player = "Al Ba" -> "WR"
      [] OTHER -> IF season = 2020 THEN "RB" ELSE "WR"

\* the table of lines 81-102, as far as the modelled names go
name_to_id == [player \in {"Tom Brady"} |-> "B/BradTo00"]

\* hashlib.md5(player_name.encode()).hexdigest()[:4]
NameHash(player_name) ==
    CASE player_name = "Tom Brady" -> "47ca"
      [] player_name = "Al Ba" -> "1af7"
      [] player_name = "Bo Ax" -> "db0b"

\* player_name.split()[-1][0]
LastInitial(player_name) ==
    LET i == CHOOSE k \in 1..Len(player_name) :
                 /\ k = 1 \/ SubSeq(player_name, k - 1, k - 1) = " "
                 /\ \A j \in k..Len(player_name) :
                        SubSeq(player_name, j, j) # " "
    IN  SubSeq(player_name, i, i)

\* the mapper starts with an empty cache file, so get_pfr_id is
\* _search_pfr_id
_search_pfr_id(player_name) ==
    IF player_name \notin DOMAIN name_to_id
    THEN SubSeq(player_name, 1, 1) \o "/" \o LastInitial(player_name)
             \o NameHash(player_name)
    ELSE name_to_id[player_name]

\* the loop of update_data_with_ids over the unique players, in order of
\* first appearance: an id that is taken gets a counter appended
RECURSIVE player_id_mapping(_, _)
player_id_mapping(unique_players, used_ids) ==
    IF unique_players = <<>> THEN {}
    ELSE LET player == Head(unique_players)
             pfr_id == _search_pfr_id(player)
             counter == CHOOSE c \in 1..(Cardinality(used_ids) + 1) :
                            /\ (pfr_id \o ToStr(c)) \notin used_ids
                            /\ \A d \in 1..(c - 1) :
                                   (pfr_id \o ToStr(d)) \in used_ids
             unique_id == IF pfr_id \notin used_ids THEN pfr_id
                          ELSE pfr_id \o ToStr(counter)
         IN  {<<player, unique_id>>}
                 \cup player_id_mapping(Tail(unique_players),
                                        used_ids \cup {unique_id})

\* df[player_col].unique()
RECURSIVE Unique(_)
Unique(names) ==
    IF names = <<>> THEN <<>>
    ELSE LET rest == Unique(SubSeq(names, 1, Len(names) - 1))
             last == names[Len(names)]
         IN  IF last \in Range(rest) THEN rest ELSE Append(rest, last)

\* update_data_with_ids: the rows with the column pfr_id
update_data_with_ids(rows) ==
    LET ids == player_id_mapping(
                   Unique([i \in 1..Len(rows) |-> rows[i].Player]), {})
    IN  [i \in 1..Len(rows) |->
            [Player |-> rows[i].Player, Pos |-> rows[i].Pos,
             Season |-> rows[i].Season,
             pfr_id |-> (CHOOSE m \in ids : m[1] = rows[i].Player)[2]]]

\* process_season_data: every player gets an id, so the notna filter keeps
\* every row; Pos_Rank is a column nothing reads
process_season_data(rows) == update_data_with_ids(rows)

\* get_player_selection_options on a frame that has the column pfr_id
SelectionOptions(rows) ==
    LET groups == {<<rows[i].Player, rows[i].pfr_id>> : i \in 1..Len(rows)}
        Of(g) == {i \in 1..Len(rows) :
                      rows[i].Player = g[1] /\ rows[i].pfr_id = g[2]}
        display_string(g) ==
            LET start_year == SetMin({rows[i].Season : i \in Of(g)})
                end_year == SetMax({rows[i].Season : i \in Of(g)})
                position == rows[SetMin(Of(g))].Pos
                years_active == IF start_year = end_year
                                THEN ToStr(start_year)
                                ELSE ToStr(start_year) \o "-" \o ToStr(end_year)
            IN  g[1] \o " (" \o position \o ", " \o years_active \o ")"
    IN  [display_options |-> SortedStrings({display_string(g) : g \in groups}),
         player_mapping |-> {<<display_string(g), g[2]>> : g \in groups},
         raised |-> ""]

\* get_player_selection_options: groupby(['Player', 'pfr_id']) raises
\* KeyError on a frame without the column pfr_id
get_player_selection_options(season_data) ==
    IF ~season_data.pfr_id
    THEN [display_options |-> <<>>, player_mapping |-> {},
          raised |-> "KeyError"]
    ELSE SelectionOptions(season_data.rows)

\* the season files: each player played some of the seasons, maybe none
SeasonFiles == [1..Len(PlayerNames) -> SUBSET SeasonYears]

\* pd.read_csv: the rows of a season file, player by player
RECURSIVE RawRows(_, _)
RawRows(file, i) ==
    IF i > Len(PlayerNames) THEN <<>>
    ELSE [k \in 1..Cardinality(file[i]) |->
              [Player |-> PlayerNames[i],
               Pos |-> PosOf(PlayerNames[i], SortedSeq(file[i])[k]),
               Season |-> SortedSeq(file[i])[k]]]
             \o RawRows(file, i + 1)

\* a season frame is in hand, as read from the file
InitSelection ==
    /\ players = {} /\ seasons = {} /\ draft = {}
    /\ stats_cache = NotLoaded /\ players_cache = NotLoaded
    /\ request = NoRequest /\ result = NoResult /\ http_status = 0
    /\ previous = NoResult
    /\ connection = NoConnection
    /\ \E file \in SeasonFiles :
           selection = [stage |-> "raw",
                        season_data |-> [rows |-> RawRows(file, 1),
                                         pfr_id |-> FALSE]]

\* DataLoader.load_season_data, after read_csv
load_season_data ==
    /\ selection.stage = "raw"
    /\ selection' = [stage |-> "processed",
                     season_data |->
                         [rows |-> process_season_data(selection.season_data.rows),
                          pfr_id |-> TRUE]]
    /\ UNCHANGED <<players, seasons, draft, stats_cache, players_cache,
                   request, result, http_status, previous, connection>>

\* DataLoader.get_player_selection_options(season_data), as load_data calls it
\* on the processed frame and as a caller may on the frame as read
GetOptions ==
    /\ selection.stage \in {"raw", "processed"}
    /\ selection' = [stage |-> "options",
                     season_data |-> selection.season_data,
                     options |-> get_player_selection_options(
                                     selection.season_data)]
    /\ UNCHANGED <<players, seasons, draft, stats_cache, players_cache,
                   request, result, http_status, previous, connection>>

NextSelection == load_season_data \/ GetOptions

(***************************************************************************)
(* Database.get_connection around the blocks that write: clear_data, three *)
(* DELETE statements, and the block of ingest_all, three DataFrame.to_sql  *)
(* calls.  sqlite3 opens a transaction before a DELETE or an INSERT and    *)
(* holds the changes back until commit.  to_sql on a sqlite3 connection     *)
(* runs its INSERTs in pandas' run_transaction, which commits the          *)
(* connection when the INSERTs are through and rolls it back when they     *)
(* raise.  connection is                                                   *)
(*   [state, block, step, entry, view, rows, raised]                       *)
(* step the statements of the block that are through, entry the tables as  *)
(* committed when the block was entered, view the tables as the connection *)
(* sees them, rows what an ingestion is to insert, raised the exception    *)
(* that left the block.                                                    *)
(***************************************************************************)
\* the committed tables of the database file
Tables == [players |-> players, seasons |-> seasons, draft |-> draft]

\* the statements of the two blocks, in order
clear_data == <<"seasons", "draft", "players">>
ingest_all == <<"players", "seasons", "draft">>
Statements(block) == IF block = "clear_data" THEN clear_data ELSE ingest_all

\* the career sets a run of ingest_all can build its frames from
IngestFiles ==
    ServingDatabases
        \cup { <<TwinVeterans[1], TwinVeterans[3], TwinNewest[1]>>,
               <<TwinVeterans[1], TwinVeterans[2]>> }

\* the database file holds the rows of an ingestion, or empty tables
InitConnection ==
    /\ \/ \E careers \in IngestFiles : TablesOf(careers)
       \/ players = {} /\ seasons = {} /\ draft = {}
    /\ Cold

\* lines 41-46: the connection is opened and the block is entered
get_connection(block, rows) ==
    /\ connection.state \in {"none", "closed"}
    /\ connection' = [state |-> "open", block |-> block, step |-> 0,
                      entry |-> Tables, view |-> Tables, rows |-> rows,
                      raised |-> ""]
    /\ UNCHANGED <<players, seasons, draft, stats_cache, players_cache,
                   request, result, http_status, previous, selection>>

\* conn.execute("DELETE FROM ..."): the next statement of clear_data, held
\* back in the connection's transaction
Delete ==
    /\ connection.state = "open"
    /\ connection.block = "clear_data"
    /\ connection.step < Len(clear_data)
    /\ connection' =
           [connection EXCEPT
               !.step = @ + 1,
               !.view = [@ EXCEPT ![clear_data[connection.step + 1]] = {}]]
    /\ UNCHANGED <<players, seasons, draft, stats_cache, players_cache,
                   request, result, http_status, previous, selection>>

\* df.to_sql(table, conn, if_exists='append'): the next statement of the
\* block of ingest_all
to_sql ==
    /\ connection.state = "open"
    /\ connection.block = "ingest_all"
    /\ connection.step < Len(ingest_all)
    /\ LET table == ingest_all[connection.step + 1]
           view == [connection.view EXCEPT
                       ![table] = @ \cup connection.rows[table]]
       IN  /\ connection' = [connection EXCEPT !.step = @ + 1, !.view = view]
           \* run_transaction commits the connection
           /\ players' = view.players
           /\ seasons' = view.seasons
           /\ draft' = view.draft
    /\ UNCHANGED <<stats_cache, players_cache, request, result, http_status,
                   previous, selection>>

\* the next statement of the block raises (a constraint fails, the file is
\* locked): lines 48-53, rollback, the exception goes on to the caller, close
BlockRaises ==
    /\ connection.state = "open"
    /\ connection.step < Len(Statements(connection.block))
    /\ connection' = [connection EXCEPT !.state = "closed", !.view = Tables,
                                        !.raised = "Exception"]
    /\ UNCHANGED <<players, seasons, draft, stats_cache, players_cache,
                   request, result, http_status, previous, selection>>

\* the block is through: lines 47 and 53, commit and close
BlockCompletes ==
    /\ connection.state = "open"
    /\ connection.step = Len(Statements(connection.block))
    /\ players' = connection.view.players
    /\ seasons' = connection.view.seasons
    /\ draft' = connection.view.draft
    /\ connection' = [connection EXCEPT !.state = "closed"]
    /\ UNCHANGED <<stats_cache, players_cache, request, result, http_status,
                   previous, selection>>

NoRows == [players |-> {}, seasons |-> {}, draft |-> {}]

NextConnection ==
    \/ get_connection("clear_data", NoRows)
    \/ \E careers \in IngestFiles :
           /\ players = {} /\ seasons = {} /\ draft = {}
           /\ get_connection("ingest_all",
                             [players |-> PlayersTable(careers),
                              seasons |-> SeasonsTable(careers),
                              draft |-> DraftTable(careers)])
    \/ Delete
    \/ to_sql
    \/ BlockRaises
    \/ BlockCompletes

SpecCohort == InitCohort /\ [][Next]_vars
SpecScores == InitScores /\ [][Next]_vars
SpecDraft == InitDraft /\ [][Next]_vars
SpecTwins == InitTwins /\ [][Next]_vars
SpecFantasy == InitFantasy /\ [][Next]_vars
SpecGaps == InitGaps /\ [][Next]_vars
SpecServing == InitServing /\ [][NextServing]_vars
SpecRepeat == (InitTwins \/ InitFantasy) /\ [][NextRepeat]_vars
SpecSelection == InitSelection /\ [][NextSelection]_vars
SpecConnection == InitConnection /\ [][NextConnection]_vars
Spec == Init /\ [][Next]_vars

(***************************************************************************)
(* What the claims speak of, read from the tables and the request.         *)
(***************************************************************************)
Responded == request # NoRequest
Returned200 == Responded /\ result.raised = ""

\* the rows of the season-statistics view (seasons JOIN players) of a player
ViewRows(id) ==
    {s \in seasons : s.gsis_id = id /\ \E p \in players : p.gsis_id = id}
HasProfile(id) == \E p \in players : p.gsis_id = id
Profile(id) == CHOOSE p \in players : p.gsis_id = id
HasDraftPick(id) == \E d \in draft : d.gsis_id = id /\ d.pick # NULL

TargetFound == HasProfile(request.gsis_id) /\ ViewRows(request.gsis_id) # {}

\* the comparison unit of a season row: the age or the season number
Unit(s) ==
    IF request.mode = "age"
    THEN IF Profile(s.gsis_id).birth_year = NULL THEN NULL
         ELSE s.season - Profile(s.gsis_id).birth_year
    ELSE s.season_number
Units(id) == {Unit(s) : s \in ViewRows(id)} \ {NULL}

\* the comparison window of the request, when the target has units
Smaller(a, b) == IF a < b THEN a ELSE b
WindowMin ==
    IF request.mode = "age" THEN SetMin(Units(request.gsis_id)) ELSE 1
WindowMax ==
    IF request.mode = "age" \/ request.through_season = None
    THEN SetMax(Units(request.gsis_id))
    ELSE Smaller(request.through_season, SetMax(Units(request.gsis_id)))
Window == WindowMin..WindowMax
HasWindow == TargetFound /\ Units(request.gsis_id) # {}

\* a peer candidate: another player of the target's position who started earlier
Eligible(id) ==
    /\ id # request.gsis_id
    /\ HasProfile(id)
    /\ Profile(id).position = Profile(request.gsis_id).position
    /\ Profile(id).first_season < Profile(request.gsis_id).first_season

\* the window values for which the player has a record
Covered(id) == Units(id) \cap Window
HalfWindow ==
    IF Cardinality(Window) \div 2 > 1 THEN Cardinality(Window) \div 2 ELSE 1
Passes(id) ==
    /\ Eligible(id)
    /\ IF request.mode = "season_number"
       THEN Covered(id) = Window
       ELSE Cardinality(Covered(id)) >= HalfWindow

RankedIds == {result.similar_players[i].gsis_id : i \in 1..Len(result.similar_players)}

(***************************************************************************)
(* C1: a request whose target has no profile row, or no row in the         *)
(* season-statistics view, fails with the ValueError that /find answers   *)
(* with 404, and no ranked list is produced.                               *)
(***************************************************************************)
C1_NotFound ==
    (Responded /\ ~TargetFound) =>
        /\ result.raised \in {"ValueError: Player not found",
                              "ValueError: No stats found for player"}
        /\ http_status = 404
        /\ result.similar_players = <<>>

\* a target with a profile and no season rows was answered 404
C1_Witness ==
    /\ Responded
    /\ HasProfile(request.gsis_id)
    /\ ViewRows(request.gsis_id) = {}
    /\ http_status = 404

C3_EmptyCohort ==
    (Responded /\ HasWindow /\ \A id \in Ids : ~Passes(id)) =>
        /\ result.raised = ""
        /\ result.similar_players = <<>>
        /\ result.comparison_range = <<WindowMin, WindowMax>>

\* an eligible peer with records inside the window fell short of the coverage,
\* nobody passed, and the empty result came back
C3_Witness ==
    /\ Responded /\ HasWindow
    /\ \A id \in Ids : ~Passes(id)
    /\ \E id \in Ids : Eligible(id) /\ Covered(id) # {}
    /\ result.raised = ""
    /\ result.similar_players = <<>>

(***************************************************************************)
(* C4: every player of the ranked list plays the target's position,        *)
(* started strictly before the target's first season and is not the        *)
(* target.                                                                 *)
(***************************************************************************)
C4_PeersEligible ==
    Returned200 => \A id \in RankedIds : Eligible(id)

\* a ranked list came back while a player with season rows, of the target's
\* position, who started in the target's first season or later, was left out
C4_Witness ==
    /\ Returned200
    /\ RankedIds # {}
    /\ \E id \in Ids \ RankedIds :
           /\ HasProfile(id) /\ id # request.gsis_id /\ ViewRows(id) # {}
           /\ Profile(id).position = Profile(request.gsis_id).position
           /\ Profile(id).first_season >= Profile(request.gsis_id).first_season

(***************************************************************************)
(* C5: in season_number mode a peer is in the cohort, and so in the ranked *)
(* list, only if it has a record for every season number of the window.    *)
(***************************************************************************)
C5_FullWindow ==
    (Returned200 /\ request.mode = "season_number") =>
        \A id \in RankedIds \cup result.locals.valid_peers :
            \A n \in result.comparison_range[1]..result.comparison_range[2] :
                n \in Units(id)

\* a peer with the whole window was ranked while an eligible peer that has
\* some but not all of the window's season numbers was left out
C5_Witness ==
    /\ Returned200 /\ request.mode = "season_number" /\ HasWindow
    /\ RankedIds # {}
    /\ \E id \in Ids \ (RankedIds \cup result.locals.valid_peers) :
           Eligible(id) /\ Covered(id) # {} /\ Covered(id) # Window

(***************************************************************************)
(* C6: in season_number mode the window is [1, max], max the smaller of    *)
(* through_season, when given, and the target's largest season number.     *)
(***************************************************************************)
C6_SeasonWindow ==
    (Returned200 /\ request.mode = "season_number" /\ HasWindow) =>
        result.comparison_range =
            <<1, IF request.through_season = None
                 THEN SetMax(Units(request.gsis_id))
                 ELSE Smaller(request.through_season,
                              SetMax(Units(request.gsis_id)))>>

\* through_season cut a longer career: the window stops at through_season
C6_Witness ==
    /\ Returned200 /\ request.mode = "season_number" /\ HasWindow
    /\ request.through_season # None
    /\ request.through_season < SetMax(Units(request.gsis_id))
    /\ request.through_season > 1
    /\ result.comparison_range = <<1, request.through_season>>
    /\ RankedIds # {}

(***************************************************************************)
(* C7: in age mode a peer candidate is in the cohort exactly when the      *)
(* number of distinct ages of the window for which it has a record is at   *)
(* least max(1, floor(n / 2)), n the number of values of the window.       *)
(***************************************************************************)
C7_AgeOverlap ==
    (Returned200 /\ request.mode = "age" /\ HasWindow) =>
        \A id \in Ids :
            id \in result.locals.valid_peers <=>
                (Eligible(id) /\ Cardinality(Covered(id)) >= HalfWindow)

\* a window of at least four ages: a peer with exactly half of them is in the
\* cohort, an eligible peer with fewer, but some, is not
C7_Witness ==
    /\ Returned200 /\ request.mode = "age" /\ HasWindow
    /\ HalfWindow >= 2
    /\ \E id \in result.locals.valid_peers : Cardinality(Covered(id)) = HalfWindow
    /\ \E id \in Ids \ result.locals.valid_peers :
           Eligible(id) /\ Covered(id) # {}

(***************************************************************************)
(* C8: the ranked list is ascending in similarity_score.                   *)
(***************************************************************************)
C8_Ascending ==
    Returned200 =>
        \A i, j \in 1..Len(result.similar_players) :
            i < j => RLe(result.similar_players[i].similarity_score,
                         result.similar_players[j].similarity_score)

\* a ranked list of two or more peers whose first and last scores differ, from
\* a score table that was not already in that order
C8_Witness ==
    /\ Returned200
    /\ Len(result.similar_players) >= 2
    /\ RLt(result.similar_players[1].similarity_score,
           result.similar_players[Len(result.similar_players)].similarity_score)
    /\ result.similar_players[1].gsis_id # result.locals.scores[1].gsis_id

(***************************************************************************)
(* C9: for max_results in [1, 50] the ranked list holds at most            *)
(* max_results peers, all of them scored candidates, as many as there are  *)
(* up to max_results, and no candidate left out scores strictly lower than *)
(* one that is returned.                                                   *)
(***************************************************************************)
Candidates == {result.locals.scores[i] : i \in 1..Len(result.locals.scores)}
RankedRows == {result.similar_players[i] : i \in 1..Len(result.similar_players)}

C9_LowestKept ==
    (Returned200 /\ request.max_results \in 1..50) =>
        /\ Len(result.similar_players) =
               Smaller(request.max_results, Len(result.locals.scores))
        /\ Cardinality(RankedRows) = Len(result.similar_players)
        /\ RankedRows \subseteq Candidates
        /\ \A c \in Candidates \ RankedRows : \A r \in RankedRows :
               ~RLt(c.similarity_score, r.similarity_score)

\* the list was cut: a candidate that scores strictly higher than every
\* returned peer was left out, and it was not the last row of the score table
C9_Witness ==
    /\ Returned200
    /\ Len(result.similar_players) = request.max_results
    /\ \E c \in Candidates \ RankedRows :
           /\ \A r \in RankedRows : RLt(r.similarity_score, c.similarity_score)
           /\ c # result.locals.scores[Len(result.locals.scores)]

(***************************************************************************)
(* C10: when the target has no overall draft pick, every peer gets the     *)
(* draft_score 0.5, drafted or not.                                        *)
(***************************************************************************)
C10_UndraftedTargetNeutral ==
    (Returned200 /\ ~HasDraftPick(request.gsis_id)) =>
        \A c \in Candidates : c.draft_score = Rat(1, 2)

(***************************************************************************)
(* C11: when the target has an overall draft pick, every scored peer       *)
(* without a draft pick gets the draft_score 0.3, whatever the target's    *)
(* pick is.                                                                *)
(***************************************************************************)
C11_UndraftedPeerPenalty ==
    (Returned200 /\ HasDraftPick(request.gsis_id)) =>
        \A c \in Candidates :
            ~HasDraftPick(c.gsis_id) => c.draft_score = Rat(3, 10)

\* a drafted target was scored against a peer without a draft pick and a peer
\* with one
C11_Witness ==
    /\ Returned200 /\ HasDraftPick(request.gsis_id)
    /\ \E c \in Candidates : ~HasDraftPick(c.gsis_id) /\ c.draft_score = Rat(3, 10)
    /\ \E c \in Candidates : HasDraftPick(c.gsis_id)

(***************************************************************************)
(* C12: for a drafted target and a drafted peer whose position picks are   *)
(* both known, draft_score is the mean of max(0, 1 - |pick gap| / 224) and *)
(* max(0, 1 - |position-pick gap| / 15); it lies in [0, 1] and is 1 when   *)
(* both picks and both position picks coincide.                            *)
(***************************************************************************)
DraftOf(id) == CHOOSE d \in draft : d.gsis_id = id
HasPositionPick(id) ==
    \E d \in draft : d.gsis_id = id /\ d.pick # NULL /\ d.position_pick # NULL
Distance(a, b) == IF a < b THEN b - a ELSE a - b
Closeness(gap, span) ==
    IF gap >= span THEN RInt(0) ELSE RSub(RInt(1), Rat(gap, span))
OverallPickScore(id) ==
    Closeness(Distance(DraftOf(id).pick, DraftOf(request.gsis_id).pick), 224)
PositionalPickScore(id) ==
    Closeness(Distance(DraftOf(id).position_pick,
                       DraftOf(request.gsis_id).position_pick), 15)

C12_DraftFormula ==
    (Returned200 /\ HasPositionPick(request.gsis_id)) =>
        \A c \in Candidates :
            HasPositionPick(c.gsis_id) =>
                /\ c.draft_score =
                       RDiv(RAdd(OverallPickScore(c.gsis_id),
                                 PositionalPickScore(c.gsis_id)), RInt(2))
                /\ RLe(RInt(0), c.draft_score) /\ RLe(c.draft_score, RInt(1))
                /\ (/\ DraftOf(c.gsis_id).pick = DraftOf(request.gsis_id).pick
                    /\ DraftOf(c.gsis_id).position_pick =
                           DraftOf(request.gsis_id).position_pick)
                       => c.draft_score = RInt(1)

\* one scored peer has the target's pick and position pick and the score 1,
\* another is more than 224 picks and more than 15 position picks away and
\* has the score 0
C12_Witness ==
    /\ Returned200 /\ HasPositionPick(request.gsis_id)
    /\ \E c \in Candidates :
           /\ HasPositionPick(c.gsis_id)
           /\ DraftOf(c.gsis_id).pick = DraftOf(request.gsis_id).pick
           /\ DraftOf(c.gsis_id).position_pick = DraftOf(request.gsis_id).position_pick
           /\ c.draft_score = RInt(1)
    /\ \E c \in Candidates :
           /\ HasPositionPick(c.gsis_id)
           /\ Distance(DraftOf(c.gsis_id).pick, DraftOf(request.gsis_id).pick) > 224
           /\ c.draft_score = RInt(0)

(***************************************************************************)
(* C13: for every peer of the scored set, similarity_score is              *)
(* 0.4 * euclidean_norm + 0.4 * fantasy_norm + 0.2 * (1 - draft_score).    *)
(* The norms are the min-max normalisations over the scored set, 0.5 when  *)
(* the set ties.                                                           *)
(***************************************************************************)
LeastOf(S) == CHOOSE a \in S : \A b \in S : RLe(a, b)
GreatestOf(S) == CHOOSE a \in S : \A b \in S : RLe(b, a)
NormIn(x, S) ==
    IF LeastOf(S) = GreatestOf(S) THEN Rat(1, 2)
    ELSE RDiv(RSub(x, LeastOf(S)), RSub(GreatestOf(S), LeastOf(S)))
EuclideanNorm(c) == NormIn(c.euclidean_score, {x.euclidean_score : x \in Candidates})
FantasyNorm(c) == NormIn(c.fantasy_score, {x.fantasy_score : x \in Candidates})
DraftComponent(c) == RMul(Rat(1, 5), RSub(RInt(1), c.draft_score))

\* the statement as the claim has it: every scored peer has the three terms
C13_ThreeTermBlend ==
    Returned200 =>
        \A c \in Candidates :
            /\ c.euclidean_score # RNaN
            /\ c.fantasy_score # RNaN
            /\ c.similarity_score =
                   RAdd(RAdd(RMul(Rat(2, 5), EuclideanNorm(c)),
                             RMul(Rat(2, 5), FantasyNorm(c))),
                        DraftComponent(c))

\* C13, amended: the three-term blend holds when some peer has a
\* fantasy_score; when none has (the target's fantasy points are zero or
\* missing in every unit of the window) the fantasy term is left out and
\* similarity_score is 0.4 * euclidean_norm + 0.2 * (1 - draft_score)
C13_Blend ==
    Returned200 =>
        \A c \in Candidates :
            /\ c.euclidean_score # RNaN
            /\ c.similarity_score =
                   IF c.fantasy_score # RNaN
                   THEN RAdd(RAdd(RMul(Rat(2, 5), EuclideanNorm(c)),
                                  RMul(Rat(2, 5), FantasyNorm(c))),
                             DraftComponent(c))
                   ELSE RAdd(RMul(Rat(2, 5), EuclideanNorm(c)), DraftComponent(c))

\* two peers were scored for a target without a usable fantasy unit: they
\* have no fantasy_score, and their euclidean scores differ
C13_Witness ==
    /\ Returned200
    /\ \E c, e \in Candidates :
           /\ c.fantasy_score = RNaN /\ e.fantasy_score = RNaN
           /\ RLt(c.euclidean_score, e.euclidean_score)

(***************************************************************************)
(* C14: every returned peer has similarity_score >= 0.                     *)
(***************************************************************************)
C14_NonNegative ==
    Returned200 =>
        \A r \in RankedRows : RLe(RInt(0), r.similarity_score)

\* a ranked list whose best peer has the score 0 and whose last peer has more
C14_Witness ==
    /\ Returned200
    /\ \E r, q \in RankedRows :
           r.similarity_score = RInt(0) /\ RLt(RInt(0), q.similarity_score)

(***************************************************************************)
(* C15: a returned peer has similarity_score 0 only when it is identical   *)
(* to the target within the window: equal statistics and fantasy points in *)
(* every unit both have a record for, and equal draft capital.             *)
(***************************************************************************)
FpAt(id, u) == (CHOOSE s \in ViewRows(id) : Unit(s) = u).fantasy_points_ppr
SharedUnits(id) ==
    {u \in Units(id) \cap Units(request.gsis_id) :
        u >= result.comparison_range[1] /\ u <= result.comparison_range[2]}
SameDraftCapital(id) ==
    /\ HasPositionPick(id) /\ HasPositionPick(request.gsis_id)
    /\ DraftOf(id).pick = DraftOf(request.gsis_id).pick
    /\ DraftOf(id).position_pick = DraftOf(request.gsis_id).position_pick
Identical(id) ==
    /\ SharedUnits(id) # {}
    /\ \A u \in SharedUnits(id) : FpAt(id, u) = FpAt(request.gsis_id, u)
    /\ SameDraftCapital(id)

C15_ZeroOnlyIfIdentical ==
    Returned200 =>
        \A r \in RankedRows :
            r.similarity_score = RInt(0) => Identical(r.gsis_id)

(***************************************************************************)
(* C16: a returned peer that is identical to the target within the window  *)
(* has similarity_score 0, in every cohort, a cohort of one peer and a     *)
(* cohort in which all peers tie included.                                 *)
(***************************************************************************)
C16_IdenticalScoresZero ==
    Returned200 =>
        \A r \in RankedRows :
            Identical(r.gsis_id) => r.similarity_score = RInt(0)

(***************************************************************************)
(* C17: no peer of the ranked list has a NaN similarity_score, whatever    *)
(* the data: null statistics, zero or null fantasy points, missing draft   *)
(* fields, cohorts of one peer.                                            *)
(***************************************************************************)
C17_NoNaNScore ==
    Returned200 =>
        \A r \in RankedRows : r.similarity_score # RNaN

\* the peer has no window unit that gives a fantasy difference
NoFantasyUnit(id) ==
    \A u \in SharedUnits(id) :
        \/ FpAt(request.gsis_id, u) \in {0, NULL}
        \/ FpAt(id, u) = NULL

\* an undrafted target in a database with draft rows; a ranked peer had no
\* fantasy difference of its own, two other peers had one and not the same
C17_Witness ==
    /\ Returned200
    /\ ~HasDraftPick(request.gsis_id) /\ draft # {}
    /\ \E r \in RankedRows :
           /\ NoFantasyUnit(r.gsis_id)
           /\ r.fantasy_score # RNaN
           /\ r.similarity_score # RNaN
    /\ \E c, e \in Candidates :
           /\ ~NoFantasyUnit(c.gsis_id) /\ ~NoFantasyUnit(e.gsis_id)
           /\ RLt(c.fantasy_score, e.fantasy_score)

(***************************************************************************)
(* C18: a peer's fantasy_score is the mean, over the window units where    *)
(* target and peer both have a record, of |peer_fp - target_fp| /          *)
(* max(target_fp, 1); a unit where the target's fantasy points are zero or *)
(* missing is skipped, and skipping a unit does not remove the peer.       *)
(* Stated for peers whose own fantasy points are known in those units.     *)
(***************************************************************************)
FantasyUnits(id) ==
    {u \in SharedUnits(id) : FpAt(request.gsis_id, u) \notin {0, NULL}}
Deviation(id, u) ==
    Rat(Distance(FpAt(id, u), FpAt(request.gsis_id, u)),
        IF FpAt(request.gsis_id, u) > 1 THEN FpAt(request.gsis_id, u) ELSE 1)
MeanDeviation(id) ==
    LET units == SortedSeq(FantasyUnits(id))
    IN  RMean([i \in 1..Len(units) |-> Deviation(id, units[i])])
FpKnown(id) == \A u \in SharedUnits(id) : FpAt(id, u) # NULL

C18_FantasyScore ==
    Returned200 =>
        /\ \A c \in Candidates :
               (FpKnown(c.gsis_id) /\ FantasyUnits(c.gsis_id) # {}) =>
                   c.fantasy_score = MeanDeviation(c.gsis_id)
        /\ \A id \in result.locals.valid_peers :
               SharedUnits(id) # {} => \E c \in Candidates : c.gsis_id = id
        \* the example of the claim: target [300, 280], peer [310, 270]
        /\ \A c \in Candidates :
               (/\ SharedUnits(c.gsis_id) = {1, 2}
                /\ FpAt(request.gsis_id, 1) = 300 /\ FpAt(request.gsis_id, 2) = 280
                /\ FpAt(c.gsis_id, 1) = 310 /\ FpAt(c.gsis_id, 2) = 270)
                   => c.fantasy_score = Rat(29, 840)

\* a target with -1, 0 and 3 fantasy points: the peer's score is the mean over
\* the two units that are left, one of them divided by the floor 1
C18_Witness ==
    /\ Returned200
    /\ \E c \in Candidates :
           /\ FpKnown(c.gsis_id)
           /\ Cardinality(SharedUnits(c.gsis_id)) = 3
           /\ Cardinality(FantasyUnits(c.gsis_id)) = 2
           /\ \E u \in FantasyUnits(c.gsis_id) : FpAt(request.gsis_id, u) < 1
           /\ c.fantasy_score = MeanDeviation(c.gsis_id)

OneSnapshot(stats_df, players_df) ==
    \/ stats_df = StatsFrame({}, {}) /\ players_df = PlayersFrame({}, {})
    \/ \E careers \in ServingDatabases :
           /\ stats_df = StatsFrame(PlayersTable(careers), SeasonsTable(careers))
           /\ players_df = PlayersFrame(PlayersTable(careers), DraftTable(careers))

C20_SnapshotRead ==
    (request # NoRequest /\ http_status # 0) =>
        OneSnapshot(stats_cache.rows, players_cache.rows)

(***************************************************************************)
(* C21: in the result of get_player_selection_options every entry of       *)
(* player_mapping maps a display string to the player name that the        *)
(* display string shows: the mapped value is contained in its key.         *)
(***************************************************************************)
\* t in s, of two Python strings
Contains(s, t) ==
    \E i \in 1..(Len(s) - Len(t) + 1) : SubSeq(s, i, i + Len(t) - 1) = t

C21_MappingNamesPlayer ==
    (selection.stage = "options" /\ selection.options.raised = "") =>
        \A entry \in selection.options.player_mapping :
            Contains(entry[1], entry[2])

(***************************************************************************)
(* C22: the draft component of similarity_score is weighted by the         *)
(* target's accumulated career length, the number of compared career       *)
(* units: for a given draft_score the draft contribution to                *)
(* similarity_score varies with the window length.                         *)
(***************************************************************************)
\* the call of the request with another through_season, on the same frames
WithThroughSeason(through_season) ==
    find_similar_players(stats_cache.rows, players_cache.rows,
                         request.gsis_id, request.mode, request.max_results,
                         through_season)
ScoredBy(res) == {res.locals.scores[i] : i \in 1..Len(res.locals.scores)}
WindowLength(res) == res.comparison_range[2] - res.comparison_range[1] + 1

\* what is left of a peer's similarity_score without its statistical
\* components, S the scored set of the peer
DraftContribution(c, S) ==
    RSub(c.similarity_score,
         RAdd(RMul(Rat(2, 5),
                   NormIn(c.euclidean_score, {x.euclidean_score : x \in S})),
              IF c.fantasy_score = RNaN THEN RInt(0)
              ELSE RMul(Rat(2, 5),
                        NormIn(c.fantasy_score, {x.fantasy_score : x \in S}))))

\* res is a window of another length than the window of the request
OtherLength(res) ==
    /\ res.raised = ""
    /\ result.comparison_range[1] # None
    /\ res.comparison_range[1] # None
    /\ WindowLength(res) # WindowLength(result)

\* c of the request and a of the other window are one peer with one
\* draft_score
SamePeer(c, a) == c.gsis_id = a.gsis_id /\ c.draft_score = a.draft_score

HasRawFantasy(id) == ~NoFantasyUnit(id)
RawFantasy(id) ==
    LET units == SortedSeq({u \in FantasyUnits(id) : FpAt(id, u) # NULL})
    IN  RMean([i \in 1..Len(units) |-> Deviation(id, units[i])])
RawFantasyIds == {c.gsis_id : c \in {x \in Candidates : HasRawFantasy(x.gsis_id)}}
RawFantasyMean ==
    LET ids == SortedSeq(RawFantasyIds)
    IN  RMean([i \in 1..Len(ids) |-> RawFantasy(ids[i])])

C24_FilledBeforeNormalised ==
    (Returned200 /\ RawFantasyIds # {}) =>
        \A c \in Candidates :
            /\ c.fantasy_score =
                   IF HasRawFantasy(c.gsis_id) THEN RawFantasy(c.gsis_id)
                   ELSE RawFantasyMean
            /\ RSub(c.similarity_score,
                    RAdd(RMul(Rat(2, 5), EuclideanNorm(c)), DraftComponent(c)))
                   = RMul(Rat(2, 5),
                          NormIn(IF HasRawFantasy(c.gsis_id)
                                 THEN RawFantasy(c.gsis_id)
                                 ELSE RawFantasyMean,
                                 {RawFantasy(id) : id \in RawFantasyIds}
                                     \cup {RawFantasyMean}))

\* three scored peers: two with fantasy scores of their own that differ, one
\* without, which holds their mean
C24_Witness ==
    /\ Returned200
    /\ \E c, e, f \in Candidates :
           /\ HasRawFantasy(c.gsis_id) /\ HasRawFantasy(e.gsis_id)
           /\ ~HasRawFantasy(f.gsis_id)
           /\ RLt(c.fantasy_score, e.fantasy_score)
           /\ f.fantasy_score = RDiv(RAdd(c.fantasy_score, e.fantasy_score), RInt(2))

(***************************************************************************)
(* C25: euclidean_norm and fantasy_norm are the min-max normalisation      *)
(* (x - min) / (max - min) of the component over the scored peers, and lie *)
(* in [0, 1]; when all scored peers have the same value of a component, a  *)
(* single scored peer included, the normalised value is 0.5 for every      *)
(* peer.                                                                   *)
(***************************************************************************)
InUnitInterval(x) == RLe(RInt(0), x) /\ RLe(x, RInt(1))
EuclideanScores == {x.euclidean_score : x \in Candidates}
FantasyScores == {x.fantasy_score : x \in Candidates}

C25_MinMaxNorms ==
    Returned200 =>
        \A c \in Candidates :
            /\ InUnitInterval(c.euclidean_score_norm)
            /\ c.euclidean_score_norm =
                   IF Cardinality(EuclideanScores) = 1 THEN Rat(1, 2)
                   ELSE RDiv(RSub(c.euclidean_score, LeastOf(EuclideanScores)),
                             RSub(GreatestOf(EuclideanScores),
                                  LeastOf(EuclideanScores)))
            /\ c.fantasy_score # RNaN =>
                   /\ InUnitInterval(c.fantasy_score_norm)
                   /\ c.fantasy_score_norm =
                          IF Cardinality(FantasyScores) = 1 THEN Rat(1, 2)
                          ELSE RDiv(RSub(c.fantasy_score, LeastOf(FantasyScores)),
                                    RSub(GreatestOf(FantasyScores),
                                         LeastOf(FantasyScores)))

\* three scored peers with the normalised euclidean values 0, 1 and one in
\* between, and with normalised fantasy values that are not all the same
C25_Witness ==
    /\ Returned200
    /\ \E c, e, f \in Candidates :
           /\ c.euclidean_score_norm = RInt(0)
           /\ RLt(RInt(0), e.euclidean_score_norm)
           /\ RLt(e.euclidean_score_norm, RInt(1))
           /\ f.euclidean_score_norm = RInt(1)
           /\ \E x \in {c, e, f} : x.fantasy_score_norm = RInt(1)
           /\ \E x \in {c, e, f} : x.fantasy_score_norm = RInt(0)

(***************************************************************************)
(* C26: _normalize_stats gives every row the scaled value 0 for a stat     *)
(* column whose standard deviation over the pool of target and peer rows   *)
(* is zero or undefined: all values equal, a single value, or all values   *)
(* null.  It raises nothing and gives no NaN for that column.              *)
(***************************************************************************)
Pool == DOMAIN result.locals.scaled
PoolValues == {r.fantasy_points_ppr : r \in Pool} \ {NaN}
\* fewer than two values, or all the same
NoSpread ==
    \/ Cardinality({r \in Pool : r.fantasy_points_ppr # NaN}) < 2
    \/ Cardinality(PoolValues) = 1

C26_ZeroVarianceScalesToZero ==
    (Returned200 /\ Pool # {} /\ NoSpread) =>
        \A r \in Pool : result.locals.scaled[r] = RInt(0)

\* a pool of several rows that all hold the same value, or null
C26_Witness ==
    /\ Returned200
    /\ Cardinality(PoolValues) = 1
    /\ \E r \in Pool : r.fantasy_points_ppr = NaN
    /\ \E r, q \in Pool : r # q /\ r.fantasy_points_ppr # NaN /\ q.fantasy_points_ppr # NaN
    /\ \A r \in Pool : result.locals.scaled[r] = RInt(0)

(***************************************************************************)
(* C27: a peer's euclidean_score is the arithmetic mean of the per-unit    *)
(* distances over exactly the window units where target and peer both have *)
(* a record; it is never negative, and it is exactly 0 for a peer whose    *)
(* scaled stat vector equals the target's in every such unit.              *)
(***************************************************************************)
\* the window units of a player's rows in the pool
PoolUnits(id) ==
    {Col(r, request.mode) : r \in {x \in Pool : x.gsis_id = id}} \ {NaN}
BothUnits(id) == PoolUnits(id) \cap PoolUnits(request.gsis_id)
\* the scaled value of the player's row at a unit, a missing one counted as 0
ScaledAt(id, u) ==
    LET r == CHOOSE x \in Pool : x.gsis_id = id /\ Col(x, request.mode) = u
    IN  IF result.locals.scaled[r] = RNaN THEN RInt(0)
        ELSE result.locals.scaled[r]
UnitDistance(id, u) ==
    LET gap == RSub(ScaledAt(id, u), ScaledAt(request.gsis_id, u))
    IN  IF RLt(gap, RInt(0)) THEN RNeg(gap) ELSE gap
MeanDistance(id) ==
    LET units == SortedSeq(BothUnits(id))
    IN  RMean([i \in 1..Len(units) |-> UnitDistance(id, units[i])])

C27_EuclideanMean ==
    Returned200 =>
        \A c \in Candidates :
            /\ BothUnits(c.gsis_id) # {}
            /\ c.euclidean_score = MeanDistance(c.gsis_id)
            /\ RLe(RInt(0), c.euclidean_score)
            /\ (\A u \in BothUnits(c.gsis_id) :
                    ScaledAt(c.gsis_id, u) = ScaledAt(request.gsis_id, u))
                   => c.euclidean_score = RInt(0)

\* two scored peers with several units each: one equals the target in every
\* unit and has the score 0, the other has distances that differ from unit
\* to unit
C27_Witness ==
    /\ Returned200
    /\ \E c, e \in Candidates :
           /\ Cardinality(BothUnits(c.gsis_id)) > 1
           /\ \A u \in BothUnits(c.gsis_id) :
                  ScaledAt(c.gsis_id, u) = ScaledAt(request.gsis_id, u)
           /\ c.euclidean_score = RInt(0)
           /\ \E u, v \in BothUnits(e.gsis_id) :
                  UnitDistance(e.gsis_id, u) # UnitDistance(e.gsis_id, v)
           /\ RLt(RInt(0), e.euclidean_score)

(***************************************************************************)
(* C28: every peer that obtains a fantasy_score also obtains a             *)
(* euclidean_score, so no euclidean_score is missing in the merged score   *)
(* table: only a fantasy_score is ever filled with a mean, and every peer  *)
(* of the ranked list has the euclidean_score computed from its own        *)
(* records.                                                                *)
(***************************************************************************)
MergedRows == {result.locals.merged[i] : i \in 1..Len(result.locals.merged)}
MergedRow(id) == CHOOSE x \in MergedRows : x.gsis_id = id

C28_EuclideanNeverMissing ==
    Returned200 =>
        /\ \A x \in MergedRows : x.euclidean_score # RNaN
        /\ \A r \in RankedRows :
               /\ \E x \in MergedRows : x.gsis_id = r.gsis_id
               /\ r.euclidean_score = MergedRow(r.gsis_id).euclidean_score
        /\ \A c \in Candidates :
               c.fantasy_score # MergedRow(c.gsis_id).fantasy_score =>
                   MergedRow(c.gsis_id).fantasy_score = RNaN

\* a ranked peer has a fantasy_score that was filled and a euclidean_score
\* of its own, next to a peer with both scores of its own
C28_Witness ==
    /\ Returned200
    /\ \E r, q \in RankedRows :
           /\ MergedRow(r.gsis_id).fantasy_score = RNaN
           /\ r.fantasy_score # RNaN
           /\ MergedRow(r.gsis_id).euclidean_score = r.euclidean_score
           /\ r.euclidean_score = MeanDistance(r.gsis_id)
           /\ MergedRow(q.gsis_id).fantasy_score = q.fantasy_score
           /\ q.fantasy_score # RNaN

(***************************************************************************)
(* C29: for a target that has a profile and season records but no draft    *)
(* record, /find answers with a successful response whose target           *)
(* draft_year, draft_round, draft_pick and draft_position_pick are null:   *)
(* being undrafted never makes the request fail.                           *)
(***************************************************************************)
HasDraftRecord(id) == \E d \in draft : d.gsis_id = id

C29_UndraftedTargetSucceeds ==
    (Responded /\ http_status # 0 /\ TargetFound
               /\ ~HasDraftRecord(request.gsis_id)) =>
        /\ http_status = 200
        /\ ~Truthy(result.target_player.draft_year)
        /\ ~Truthy(result.target_player.draft_round)
        /\ ~Truthy(result.target_player.draft_pick)
        /\ ~Truthy(result.target_player.draft_position_pick)

(***************************************************************************)
(* C30: every connection opened by Database.get_connection is closed when  *)
(* the with-block exits, on every path; it is committed exactly when the   *)
(* block completes without an exception, and otherwise it is rolled back   *)
(* and the exception is raised to the caller: after the block no           *)
(* connection is open or half-committed.                                   *)
(***************************************************************************)
BlockLeft == connection.state = "closed"
BlockThrough == connection.step = Len(Statements(connection.block))

C30_CommitOrRollback ==
    BlockLeft =>
           /\ connection.raised = "" <=> BlockThrough
           \* committed: the tables are as the block made them
           /\ connection.raised = "" => Tables = connection.view
           \* rolled back: the tables are as they were at the block's entry
           /\ connection.raised # "" => Tables = connection.entry

====
